---------------------------- MODULE Spec2Model ----------------------------
(***************************************************************************)
(* Session-to-transport routing of the chess MCP server                    *)
(* (workshop/step3/src/lib/mcp: header.ts, uuid.ts, index.ts).             *)
(*                                                                         *)
(* Strings are sequences of one-character strings, so that the validator   *)
(* and slice(0, 8) are computed character by character.  JavaScript values *)
(* are tagged records: Undefined, Str(s), Arr(a), a transport object       *)
(* TObj(t) and a property inherited from Object.prototype.                 *)
(*                                                                         *)
(* The transport (StreamableHTTPServerTransport) is an external            *)
(* collaborator.  It is modelled by the callbacks the router installs on   *)
(* it: onsessioninitialized fires once, while the transport handles the    *)
(* initialize POST of a generated-mode session; onclose fires on a DELETE  *)
(* teardown and on a disconnect.                                           *)
(*                                                                         *)
(* Spec is the router under all interleavings of its handlers.             *)
(* ValidatorSpec and HeaderSpec call validUUID and header on their own.    *)
(* GameSpec is the chess_move tool (server.ts, lib/store.ts) behind the    *)
(* router: sessions are opened and closed by the router's actions, tool    *)
(* calls reach registered transports, and each call is split at its two    *)
(* awaits, loadGame and saveGame.  chess.js is an external collaborator:   *)
(* a position is the sequence of moves that led to it, White may play e4,  *)
(* Black may answer e5, and game.move throws on anything else.             *)
(***************************************************************************)
EXTENDS Integers, Sequences, FiniteSets, TLC

(***************************************************************************)
(* Bounds                                                                  *)
(***************************************************************************)
\* request handlers that can be in flight at the same time
MaxInFlight == 2
\* transports created in one behaviour
MaxTransports == 2
\* chess_move calls that can be in flight at the same time
MaxCalls == 2
\* half-moves after which the rule engine accepts no further move
MaxPly == 2

(***************************************************************************)
(* JavaScript values                                                       *)
(***************************************************************************)
Undefined == [kind |-> "undefined"]
Str(s) == [kind |-> "string", v |-> s]
Arr(a) == [kind |-> "array", v |-> a]
TObj(t) == [kind |-> "transport", t |-> t]
Inherited(k) == [kind |-> "inherited", name |-> k]

\* ToBoolean: undefined and "" are falsy, objects and functions are truthy
Truthy(x) ==
    CASE x.kind = "undefined" -> FALSE
      [] x.kind = "string" -> x.v # <<>>
      [] OTHER -> TRUE

(***************************************************************************)
(* uuid.ts                                                                 *)
(***************************************************************************)
HexDigits ==
    {"0", "1", "2", "3", "4", "5", "6", "7", "8", "9",
     "a", "b", "c", "d", "e", "f", "A", "B", "C", "D", "E", "F"}

HyphenPositions == {9, 14, 19, 24}

UUIDLength == 36

\* the pattern without the i flag
MatchesUUIDLowerCase(s) ==
    /\ Len(s) = UUIDLength
    /\ \A i \in 1..UUIDLength :
          IF i \in HyphenPositions THEN s[i] = "-"
          ELSE s[i] \in {"0", "1", "2", "3", "4", "5", "6", "7", "8", "9",
                         "a", "b", "c", "d", "e", "f"}

\* /^[0-9a-f]{8}-[0-9a-f]{4}-[0-9a-f]{4}-[0-9a-f]{4}-[0-9a-f]{12}$/i
MatchesUUIDPattern(s) ==
    /\ Len(s) = UUIDLength
    /\ \A i \in 1..UUIDLength :
          IF i \in HyphenPositions THEN s[i] = "-" ELSE s[i] \in HexDigits

\* a validator that accepts every non-empty string
validUUIDAnyString(id) == Truthy(id)

validUUID(id) ==
    IF ~Truthy(id) THEN FALSE ELSE MatchesUUIDPattern(id.v)

(***************************************************************************)
(* header.ts                                                               *)
(***************************************************************************)
SessionHeader == "mcp-session-id"

\* a headers object: a function from header names to Str / Arr values
Obj(f) == [kind |-> "object", fields |-> f]

\* a header() that returns a repeated header as it is
headerWhole(headers, name) ==
    IF headers.kind = "undefined" THEN Undefined
    ELSE IF name \notin DOMAIN headers.fields THEN Undefined
    ELSE headers.fields[name]

header(headers, name) ==
    IF headers.kind = "undefined" THEN Undefined
    ELSE IF name \notin DOMAIN headers.fields THEN Undefined
    ELSE LET value == headers.fields[name] IN
         IF value.kind = "array"
         THEN IF Len(value.v) = 0 THEN Undefined ELSE Str(value.v[1])
         ELSE value

(***************************************************************************)
(* Session ids                                                             *)
(***************************************************************************)
GenChars == <<"0", "1", "2", "3", "4", "5", "6", "7", "8", "9">>

\* randomUUID(): a version-4 UUID, xxxxxxxx-xxxx-4xxx-8xxx-xxxxxxxxxxxx
randomUUIDValue(k) ==
    [i \in 1..UUIDLength |->
        IF i \in HyphenPositions THEN "-"
        ELSE IF i = 15 THEN "4"
        ELSE IF i = 20 THEN "8"
        ELSE GenChars[k]]

\* one id for every transport a behaviour can create
GenIds == {randomUUIDValue(k) : k \in 1..MaxTransports}

\* a generator that returns the same id every time
randomUUIDConstant(used) == randomUUIDValue(1)

\* randomUUID() never repeats a value: the k-th call returns the k-th id
randomUUID(used) == randomUUIDValue(Cardinality(used) + 1)

\* ids a client makes up
UuidA == [i \in 1..UUIDLength |-> IF i \in HyphenPositions THEN "-" ELSE "A"]
Id1234 == <<"1", "2", "3", "4">>
IdConstructor == <<"c", "o", "n", "s", "t", "r", "u", "c", "t", "o", "r">>
EmptyString == <<>>

ClientIds == {UuidA, Id1234, IdConstructor, EmptyString}

\* names every object inherits from Object.prototype
ObjectPrototypeKeys ==
    {IdConstructor,
     <<"t", "o", "S", "t", "r", "i", "n", "g">>,
     <<"v", "a", "l", "u", "e", "O", "f">>,
     <<"_", "_", "p", "r", "o", "t", "o", "_", "_">>}

Min(a, b) == IF a < b THEN a ELSE b

\* String.prototype.slice(0, n)
slice0(s, n) == SubSeq(s, 1, Min(n, Len(s)))
(***************************************************************************)
(* index.ts: McpServerMiddleware                                           *)
(***************************************************************************)
VARIABLES
    transports,   \* this.transports: session id -> transport (own properties)
    objs,         \* the transport objects created so far, in creation order
    slots,        \* the request handlers that are suspended at an await
    genUsed,      \* ids randomUUID has returned
    req,          \* the request the last step routed or forwarded, with the
                  \* router's answer
    callback,     \* the transport callback the last step ran
    before,       \* the registry and the number of transports before the
                  \* last step (history)
    games,        \* the files of ./games: file name -> content
    calls,        \* the chess_move handlers that are suspended at an await
    hist,         \* per session id: the moves of the successful calls and
                  \* whether a call has thrown, as long as the calls came
                  \* one after another (history)
    pure          \* the call of a pure function: its arguments and result

routerVars == <<transports, objs, slots, genUsed, req, callback, before>>

gameVars == <<games, calls, hist>>

vars == <<routerVars, gameVars, pure>>

Slots == 1..MaxInFlight

\* Record<string, T> operations on own properties
Put(reg, id, t) ==
    [k \in DOMAIN reg \cup {id} |-> IF k = id THEN t ELSE reg[k]]

Delete(reg, id) == [k \in DOMAIN reg \ {id} |-> reg[k]]

\* a lookup that never finds anything
LookupNothing(reg, id) == Undefined

\* this.transports[id] on a plain object: own property, else the prototype's
Lookup(reg, id) ==
    IF id \in DOMAIN reg THEN TObj(reg[id])
    ELSE IF id \in ObjectPrototypeKeys THEN Inherited(id)
    ELSE Undefined

\* isInitializeRequest(req.body)
isInitializeRequest(body) == body = "initialize"

NoResponse == [status |-> 0]

ErrorEnvelope ==
    [jsonrpc |-> "2.0",
     error |-> [code |-> -32000,
                message |-> "Bad Request: No valid session ID provided"],
     id |-> "null"]

\* res.status(404).json({...})
Response404 == [status |-> 404, body |-> ErrorEnvelope]

InvalidPrefix ==
    <<"I", "n", "v", "a", "l", "i", "d", " ", "o", "r", " ",
      "m", "i", "s", "s", "i", "n", "g", " ",
      "s", "e", "s", "s", "i", "o", "n", " ", "I", "D", ":", " ">>

NoneText == <<"n", "o", "n", "e">>

\* `Invalid or missing session ID: ${sessionId ? sessionId.slice(0, 8) : "none"}`
Response400(sessionId) ==
    [status |-> 400,
     body |-> InvalidPrefix \o
              (IF Truthy(sessionId) THEN slice0(sessionId.v, 8) ELSE NoneText)]

IdleSlot == [pc |-> "idle", method |-> "NONE", body |-> "none", t |-> 0]

\* no request was routed by the last step
NoRequest ==
    [method |-> "NONE", sessionId |-> Undefined, body |-> "none",
     route |-> "NONE", created |-> 0, target |-> 0, threw |-> FALSE,
     resp |-> NoResponse]

\* no transport callback ran in the last step
NoCallback ==
    [name |-> "none", t |-> 0, cause |-> "none", sessionId |-> Undefined]

\* what the next step will find
Snapshot == [reg |-> transports, n |-> Len(objs)]

\* a request is taken by the first handler that is not in use
Free(r) ==
    /\ slots[r].pc = "idle"
    /\ \A q \in Slots : q < r => slots[q].pc # "idle"

\* a newTransport that never asks the factory for a server
NewTransportObjNoServer(sessionId) ==
    IF Truthy(sessionId)
    THEN [mode |-> "explicit", sessionId |-> sessionId,
          factoryCalls |-> 0, connected |-> FALSE, closed |-> FALSE]
    ELSE [mode |-> "generated", sessionId |-> Undefined,
          factoryCalls |-> 0, connected |-> FALSE, closed |-> FALSE]

\* the transport object newTransport constructs; this.newServer is invoked
\* in the same run, before the first suspension
NewTransportObj(sessionId) ==
    IF Truthy(sessionId)
    THEN [mode |-> "explicit", sessionId |-> sessionId,
          factoryCalls |-> 1, connected |-> FALSE, closed |-> FALSE]
    ELSE [mode |-> "generated", sessionId |-> Undefined,
          factoryCalls |-> 1, connected |-> FALSE, closed |-> FALSE]

\* newTransport that registers nothing in explicit mode
RegisterNotAtAll(reg, sessionId, t) == reg

\* newTransport that registers at construction in both modes
RegisterEager(reg, sessionId, t) ==
    Put(reg, IF Truthy(sessionId) THEN sessionId.v ELSE EmptyString, t)

\* newTransport, lines up to the first await: explicit mode registers at once
RegisterExplicit(reg, sessionId, t) ==
    IF Truthy(sessionId) THEN Put(reg, sessionId.v, t) ELSE reg

\* a session-initialized callback that registers nothing
OnSessionInitializedNoPut(reg, sessionId, t) == reg

\* onsessioninitialized: (sessionId) => { this.transports[sessionId] = transport }
OnSessionInitialized(reg, sessionId, t) == Put(reg, sessionId, t)

\* a close callback that forgets to delete
OnCloseKeeps(reg, o) == reg

\* a close callback installed in the explicit branch only
OnCloseExplicitOnly(reg, o) ==
    IF o.mode = "explicit" /\ Truthy(o.sessionId)
    THEN Delete(reg, o.sessionId.v) ELSE reg

\* a close callback that empties the registry
OnCloseClears(reg, o) == <<>>

\* transport.onclose
OnClose(reg, o) ==
    IF Truthy(o.sessionId) THEN Delete(reg, o.sessionId.v) ELSE reg

\* ids a client can put in the header: made up, or issued by the server
KnownIds == ClientIds \cup genUsed

\* a header that occurs once is a string, a repeated one is a sequence
HeaderValues ==
    {Str(s) : s \in KnownIds} \cup {Arr(<<UuidA, Id1234>>), Arr(<<>>)}

ReqHeaders ==
    {Obj(<<>>)} \cup {Obj(SessionHeader :> v) : v \in HeaderValues}

Bodies(method) ==
    IF method = "POST" THEN {"initialize", "other"} ELSE {"other"}

\* no game was loaded: loadGame's null
Null == [kind |-> "null"]

IdleCall ==
    [pc |-> "idle", t |-> 0, sessionId |-> Undefined, move |-> <<>>,
     exists |-> FALSE, game |-> Null]

Calls == 1..MaxCalls

\* no pure function is being called
PureIdle == [fn |-> "none"]

\* the router never touches the game store or a tool call
StoreUntouched == UNCHANGED <<games, calls, hist, pure>>

\* the registry is empty and no request is in flight
RouterInit ==
    /\ transports = <<>>
    /\ objs = <<>>
    /\ slots = [r \in Slots |-> IdleSlot]
    /\ genUsed = {}
    /\ req = NoRequest
    /\ callback = NoCallback
    /\ before = [reg |-> <<>>, n |-> 0]

\* ./games holds no file and no tool call is in flight
StoreInit ==
    /\ games = <<>>
    /\ calls = [c \in Calls |-> IdleCall]
    /\ hist = <<>>

Init ==
    /\ RouterInit
    /\ StoreInit
    /\ pure = PureIdle

\* a router that takes every request with a session id for a new session
RouteAlwaysFresh(sessionId, found, body) ==
    IF Truthy(sessionId) THEN "FRESH" ELSE "REJECT"

\* the branch post takes
Route(sessionId, found, body) ==
    IF Truthy(sessionId) /\ Truthy(found) THEN "RESUME"
    ELSE IF (~Truthy(sessionId) /\ isInitializeRequest(body))
               \/ validUUID(sessionId) THEN "FRESH"
    ELSE "REJECT"

\* post: app.post("/") and app.get("/") up to the first suspension point
Post(r) ==
    /\ StoreUntouched
    /\ Free(r)
    /\ \E method \in {"POST", "GET"}, headers \in ReqHeaders :
       \E body \in Bodies(method) :
          LET sessionId == header(headers, SessionHeader)
              found == IF Truthy(sessionId)
                       THEN Lookup(transports, sessionId.v) ELSE Undefined
              route == Route(sessionId, found, body)
              t == Len(objs) + 1
              base == [NoRequest EXCEPT !.method = method,
                                        !.sessionId = sessionId,
                                        !.body = body, !.route = route]
              busy == [IdleSlot EXCEPT !.method = method, !.body = body]
          IN
          /\ UNCHANGED genUsed
          /\ callback' = NoCallback
          /\ before' = Snapshot
          /\ CASE route = "RESUME" ->
                  /\ UNCHANGED <<transports, objs>>
                  /\ IF found.kind = "transport"
                     THEN /\ slots' = [slots EXCEPT ![r] =
                                 [busy EXCEPT !.pc = "handling",
                                              !.t = found.t]]
                          /\ req' = [base EXCEPT !.target = found.t]
                     ELSE \* transport.handleRequest is not a function
                          /\ UNCHANGED slots
                          /\ req' = [base EXCEPT !.threw = TRUE]
               [] route = "FRESH" ->
                  /\ Len(objs) < MaxTransports
                  /\ objs' = Append(objs, NewTransportObj(sessionId))
                  /\ transports' = RegisterExplicit(transports, sessionId, t)
                  /\ slots' = [slots EXCEPT ![r] =
                         [busy EXCEPT !.pc = "awaitServer", !.t = t]]
                  /\ req' = [base EXCEPT !.created = t]
               [] OTHER ->
                  /\ UNCHANGED <<transports, objs, slots>>
                  /\ req' = [base EXCEPT !.resp = Response404]

\* await this.newServer(...) resolves; server.connect(transport) is called
ServerResolved(r) ==
    /\ StoreUntouched
    /\ slots[r].pc = "awaitServer"
    /\ slots' = [slots EXCEPT ![r].pc = "awaitConnect"]
    /\ req' = NoRequest
    /\ callback' = NoCallback
    /\ before' = Snapshot
    /\ UNCHANGED <<transports, objs, genUsed>>

\* await this.newServer(...) rejects: post rejects, the handler is gone
ServerRejected(r) ==
    /\ StoreUntouched
    /\ slots[r].pc = "awaitServer"
    /\ slots' = [slots EXCEPT ![r] = IdleSlot]
    /\ req' = NoRequest
    /\ callback' = NoCallback
    /\ before' = Snapshot
    /\ UNCHANGED <<transports, objs, genUsed>>

\* await server.connect(transport) resolves; newTransport returns and post
\* calls transport.handleRequest
ConnectResolved(r) ==
    /\ StoreUntouched
    /\ slots[r].pc = "awaitConnect"
    /\ objs' = [objs EXCEPT ![slots[r].t].connected = TRUE]
    /\ slots' = [slots EXCEPT ![r].pc = "handling"]
    /\ req' = [NoRequest EXCEPT !.route = "FORWARD", !.target = slots[r].t]
    /\ callback' = NoCallback
    /\ before' = Snapshot
    /\ UNCHANGED <<transports, genUsed>>

\* await server.connect(transport) rejects: post rejects, the handler is gone
ConnectRejected(r) ==
    /\ StoreUntouched
    /\ slots[r].pc = "awaitConnect"
    /\ slots' = [slots EXCEPT ![r] = IdleSlot]
    /\ req' = NoRequest
    /\ callback' = NoCallback
    /\ before' = Snapshot
    /\ UNCHANGED <<transports, objs, genUsed>>

\* the transport is handling the initialize POST that opens its session
OpensSession(r) ==
    /\ slots[r].pc = "handling"
    /\ slots[r].method = "POST"
    /\ isInitializeRequest(slots[r].body)
    /\ objs[slots[r].t].mode = "generated"
    /\ ~Truthy(objs[slots[r].t].sessionId)

\* sessionIdGenerator, then onsessioninitialized(sessionId)
SessionInitialized(r) ==
    /\ StoreUntouched
    /\ OpensSession(r)
    /\ LET g == randomUUID(genUsed) IN
          /\ objs' = [objs EXCEPT ![slots[r].t].sessionId = Str(g)]
          /\ transports' = OnSessionInitialized(transports, g, slots[r].t)
          /\ genUsed' = genUsed \cup {g}
          /\ callback' = [name |-> "onsessioninitialized", t |-> slots[r].t,
                           cause |-> "initialize", sessionId |-> Str(g)]
    /\ req' = NoRequest
    /\ before' = Snapshot
    /\ UNCHANGED slots

\* transport.handleRequest of a POST or GET settles: the handler is gone
HandleDone(r) ==
    /\ StoreUntouched
    /\ slots[r].pc = "handling"
    /\ slots[r].method \in {"POST", "GET"}
    /\ ~OpensSession(r)
    /\ slots' = [slots EXCEPT ![r] = IdleSlot]
    /\ req' = NoRequest
    /\ callback' = NoCallback
    /\ before' = Snapshot
    /\ UNCHANGED <<transports, objs, genUsed>>

\* getDelete: app.delete("/")
GetDelete(r) ==
    /\ StoreUntouched
    /\ Free(r)
    /\ \E headers \in ReqHeaders :
          LET sessionId == header(headers, SessionHeader)
              transport == IF Truthy(sessionId)
                           THEN Lookup(transports, sessionId.v) ELSE sessionId
              base == [NoRequest EXCEPT !.method = "DELETE",
                                        !.sessionId = sessionId,
                                        !.body = "other"]
              busy == [IdleSlot EXCEPT !.method = "DELETE", !.body = "other"]
          IN
          /\ UNCHANGED <<transports, objs, genUsed>>
          /\ callback' = NoCallback
          /\ before' = Snapshot
          /\ IF ~Truthy(transport)
             THEN /\ UNCHANGED slots
                  /\ req' = [base EXCEPT !.route = "INVALID",
                                         !.resp = Response400(sessionId)]
             ELSE IF transport.kind = "transport"
             THEN /\ slots' = [slots EXCEPT ![r] =
                         [busy EXCEPT !.pc = "handling", !.t = transport.t]]
                  /\ req' = [base EXCEPT !.route = "TEARDOWN",
                                         !.target = transport.t]
             ELSE \* transport.handleRequest is not a function
                  /\ UNCHANGED slots
                  /\ req' = [base EXCEPT !.route = "TEARDOWN",
                                         !.threw = TRUE]

\* the close callback of transport t runs
RunOnClose(t, cause) ==
    /\ StoreUntouched
    /\ transports' = OnClose(transports, objs[t])
    /\ objs' = [objs EXCEPT ![t].closed = TRUE]
    /\ callback' = [name |-> "onclose", t |-> t, cause |-> cause,
                     sessionId |-> objs[t].sessionId]
    /\ before' = Snapshot
    /\ req' = NoRequest

\* the transport handles the DELETE and closes itself; the handler is gone
Teardown(r) ==
    /\ slots[r].pc = "handling"
    /\ slots[r].method = "DELETE"
    /\ RunOnClose(slots[r].t, "teardown")
    /\ slots' = [slots EXCEPT ![r] = IdleSlot]
    /\ UNCHANGED genUsed

\* the transport closes on its own (client gone, server.close()); nothing
\* stops the callback from firing again later
Disconnect(t) ==
    /\ t \in 1..Len(objs)
    /\ RunOnClose(t, "disconnect")
    /\ UNCHANGED <<slots, genUsed>>

Next ==
    \/ \E r \in Slots : Post(r)
    \/ \E r \in Slots : ServerResolved(r)
    \/ \E r \in Slots : ServerRejected(r)
    \/ \E r \in Slots : ConnectResolved(r)
    \/ \E r \in Slots : ConnectRejected(r)
    \/ \E r \in Slots : SessionInitialized(r)
    \/ \E r \in Slots : HandleDone(r)
    \/ \E r \in Slots : GetDelete(r)
    \/ \E r \in Slots : Teardown(r)
    \/ \E t \in 1..MaxTransports : Disconnect(t)

Spec == Init /\ [][Next]_vars

TypeOK ==
    /\ DOMAIN transports \subseteq (ClientIds \cup GenIds)
    /\ \A id \in DOMAIN transports : transports[id] \in 1..Len(objs)
    /\ Len(objs) <= MaxTransports
    /\ genUsed \subseteq GenIds

(***************************************************************************)
(* Vocabulary of the properties                                            *)
(***************************************************************************)
\* the last step routed a POST or a GET
PostOrGet == req.method \in {"POST", "GET"}

\* the routed request carried a session id that was registered on arrival
IdRegistered ==
    /\ Truthy(req.sessionId)
    /\ req.sessionId.v \in DOMAIN before.reg

\* the routed request carried a session id that was not registered on arrival
IdUnregistered ==
    /\ Truthy(req.sessionId)
    /\ req.sessionId.v \notin DOMAIN before.reg

\* the last step left the registry and the set of transports as they were
NothingCreated ==
    /\ req.created = 0
    /\ Len(objs) = before.n
    /\ transports = before.reg

\* invocations of the server factory so far
FactoryCalls ==
    Cardinality({t \in 1..Len(objs) : objs[t].factoryCalls = 1})

\* a handler that is suspended inside newTransport for transport t
Creating(r, t) ==
    /\ slots[r].pc \in {"awaitServer", "awaitConnect"}
    /\ slots[r].t = t

(***************************************************************************)
(* C1 -- RESUME: a POST or GET whose session id is registered is forwarded *)
(* to exactly the transport stored under that id; no transport is created, *)
(* the server factory is not invoked and the registry stays as it was.     *)
(***************************************************************************)
C1_Resume ==
    (PostOrGet /\ IdRegistered) =>
        /\ req.route = "RESUME"
        /\ req.target = before.reg[req.sessionId.v]
        /\ NothingCreated
        /\ FactoryCalls = before.n
        /\ \E r \in Slots : slots[r].pc = "handling" /\ slots[r].t = req.target
        /\ \A r \in Slots : slots[r].pc # "idle" => slots[r].t <= before.n

C1_Witness ==
    /\ PostOrGet /\ IdRegistered
    /\ req.target = transports[req.sessionId.v]
    /\ Len(objs) = 1

(***************************************************************************)
(* C2 -- FRESH_EXPLICIT: a POST or GET whose session id is not registered  *)
(* and passes the validator creates an explicit-mode transport whose       *)
(* sessionId is that id; at the handler's first suspension point, before   *)
(* the request is forwarded, the registry maps the id to that transport;   *)
(* the request is not answered with the 404 envelope.                      *)
(***************************************************************************)
C2_FreshExplicit ==
    (PostOrGet /\ IdUnregistered /\ validUUID(req.sessionId)) =>
        /\ req.created = before.n + 1
        /\ Len(objs) = req.created
        /\ objs[req.created].mode = "explicit"
        /\ objs[req.created].sessionId = req.sessionId
        /\ req.sessionId.v \in DOMAIN transports
        /\ transports[req.sessionId.v] = req.created
        /\ \E r \in Slots : slots[r].pc = "awaitServer" /\ slots[r].t = req.created
        /\ req.target = 0
        /\ ~objs[req.created].connected
        /\ req.resp = NoResponse

C2_Witness ==
    /\ PostOrGet /\ IdUnregistered /\ validUUID(req.sessionId)
    /\ req.created = 1
    /\ transports[req.sessionId.v] = 1

(***************************************************************************)
(* C3 -- FRESH_INIT: a POST without session id and with an initialize body *)
(* creates one generated-mode transport and registers nothing yet; when    *)
(* its handshake completes exactly one registry entry appears, keyed by    *)
(* the id the transport generated, and that id matches the 8-4-4-4-12      *)
(* pattern.                                                                *)
(***************************************************************************)
C3_FreshInit ==
    /\ (req.method = "POST" /\ ~Truthy(req.sessionId)
            /\ isInitializeRequest(req.body)) =>
          /\ req.created = before.n + 1
          /\ Len(objs) = req.created
          /\ objs[req.created].mode = "generated"
          /\ ~Truthy(objs[req.created].sessionId)
          /\ transports = before.reg
          /\ req.resp = NoResponse
    /\ callback.name = "onsessioninitialized" =>
          /\ objs[callback.t].mode = "generated"
          /\ objs[callback.t].sessionId = callback.sessionId
          /\ validUUID(callback.sessionId)
          /\ callback.sessionId.v \notin DOMAIN before.reg
          /\ DOMAIN transports = DOMAIN before.reg \cup {callback.sessionId.v}
          /\ transports[callback.sessionId.v] = callback.t
          /\ \A k \in DOMAIN before.reg : transports[k] = before.reg[k]

C3_Witness ==
    /\ callback.name = "onsessioninitialized"
    /\ Cardinality(DOMAIN transports) = Cardinality(DOMAIN before.reg) + 1
    /\ validUUID(callback.sessionId)

(***************************************************************************)
(* C4 -- REJECT_UNROUTABLE: a POST or GET with (a) no or an empty session  *)
(* id and a body that is not an initialize message, or (b) a session id    *)
(* that is not registered and fails the validator, is answered with 404    *)
(* and the fixed envelope; no transport is created or used and the         *)
(* registry stays as it was.                                               *)
(***************************************************************************)
C4_RejectUnroutable ==
    (PostOrGet
        /\ \/ ~Truthy(req.sessionId) /\ ~isInitializeRequest(req.body)
           \/ IdUnregistered /\ ~validUUID(req.sessionId)) =>
        /\ req.resp = Response404
        /\ req.target = 0
        /\ ~req.threw
        /\ NothingCreated

(***************************************************************************)
(* C5 -- InvalidTeardown: a DELETE whose session id is absent or not       *)
(* registered is answered with 400 and "Invalid or missing session ID: "   *)
(* followed by the first 8 characters of the id, or by "none" when there   *)
(* is no id; no transport receives it and the registry stays as it was.    *)
(***************************************************************************)
C5_InvalidTeardown ==
    (req.method = "DELETE" /\ (~Truthy(req.sessionId) \/ IdUnregistered)) =>
        /\ req.resp.status = 400
        /\ req.resp.body =
              InvalidPrefix \o
                  (IF Truthy(req.sessionId)
                   THEN SubSeq(req.sessionId.v, 1, Min(8, Len(req.sessionId.v)))
                   ELSE NoneText)
        /\ req.target = 0
        /\ ~req.threw
        /\ NothingCreated

C7_LeakFreedom ==
    (callback.name = "onclose" /\ Truthy(objs[callback.t].sessionId)) =>
        objs[callback.t].sessionId.v \notin DOMAIN transports

\* a disconnect of a generated-mode transport whose entry was there
C7_Witness ==
    /\ callback.name = "onclose"
    /\ callback.cause = "disconnect"
    /\ objs[callback.t].mode = "generated"
    /\ Truthy(objs[callback.t].sessionId)
    /\ objs[callback.t].sessionId.v \in DOMAIN before.reg

(***************************************************************************)
(* C8 -- as stated: the entry of a session id is created once; an id that  *)
(* was registered and removed is never registered again, so no id that     *)
(* enters the registry has been the session id of another transport.       *)
(***************************************************************************)
C8_RegisteredOnce ==
    \A id \in DOMAIN transports \ DOMAIN before.reg :
        \A t \in 1..Len(objs) :
            t # transports[id] => objs[t].sessionId # Str(id)

(***************************************************************************)
(* C8 -- as amended: while an entry exists it stays bound to the same      *)
(* transport, which carries the id as its sessionId; an entry is removed   *)
(* only by a close callback, which removes the entry of its transport's    *)
(* session id; an entry appears only for a transport that was never        *)
(* registered before: the one a POST/GET with that valid, unregistered id  *)
(* has just created (which is how a removed id is registered again), or    *)
(* the one whose handshake has just completed.                             *)
(***************************************************************************)
C8_EntryLifetime ==
    /\ \A id \in DOMAIN before.reg \cap DOMAIN transports :
          transports[id] = before.reg[id]
    /\ \A id \in DOMAIN transports :
          objs[transports[id]].sessionId = Str(id)
    /\ \A id \in DOMAIN before.reg \ DOMAIN transports :
          /\ callback.name = "onclose"
          /\ callback.sessionId = Str(id)
    /\ \A id \in DOMAIN transports \ DOMAIN before.reg :
          \/ /\ PostOrGet /\ req.route = "FRESH"
             /\ req.sessionId = Str(id) /\ validUUID(req.sessionId)
             /\ transports[id] = req.created
             /\ req.created = before.n + 1
          \/ /\ callback.name = "onsessioninitialized"
             /\ callback.sessionId = Str(id)
             /\ transports[id] = callback.t
             /\ \A k \in DOMAIN before.reg : before.reg[k] # callback.t

\* an id is registered again, for a second transport, after its removal
C8_Witness ==
    /\ Len(objs) = 2
    /\ objs[1].sessionId = objs[2].sessionId
    /\ Truthy(objs[2].sessionId)
    /\ objs[1].closed
    /\ objs[2].sessionId.v \in DOMAIN transports \ DOMAIN before.reg
    /\ transports[objs[2].sessionId.v] = 2

(***************************************************************************)
(* C9 -- No fresh collision: no step overwrites an entry of the registry;  *)
(* a POST or GET that arrives while its id is registered, whatever its     *)
(* body and even while the request that registered the id is suspended in  *)
(* transport creation, takes the RESUME branch and creates no transport.   *)
(***************************************************************************)
C9_NoFreshCollision ==
    /\ \A id \in DOMAIN before.reg :
          id \in DOMAIN transports => transports[id] = before.reg[id]
    /\ (PostOrGet /\ IdRegistered) =>
          /\ req.route = "RESUME"
          /\ req.created = 0
          /\ Len(objs) = before.n
          /\ req.sessionId.v \in DOMAIN transports
          /\ transports[req.sessionId.v] = req.target

\* an initialize POST for an id whose first request is still in newTransport
C9_Witness ==
    /\ req.method = "POST" /\ IdRegistered
    /\ isInitializeRequest(req.body)
    /\ req.route = "RESUME"
    /\ \E r \in Slots : Creating(r, req.target)

(***************************************************************************)
(* C10 -- Scenario E: two transports opened by POSTs without session id    *)
(* get two distinct session ids, both matching the validator's pattern;    *)
(* the registration of one neither overwrites nor removes the entry of the *)
(* other: each stays registered under its own id until it closes.          *)
(***************************************************************************)
C10_ScenarioE ==
    /\ \A t1, t2 \in 1..Len(objs) :
          (t1 # t2 /\ objs[t1].mode = "generated" /\ objs[t2].mode = "generated"
              /\ Truthy(objs[t1].sessionId) /\ Truthy(objs[t2].sessionId)) =>
             /\ objs[t1].sessionId # objs[t2].sessionId
             /\ validUUID(objs[t1].sessionId)
             /\ validUUID(objs[t2].sessionId)
    /\ \A t \in 1..Len(objs) :
          (objs[t].mode = "generated" /\ Truthy(objs[t].sessionId)
              /\ ~objs[t].closed) =>
             /\ objs[t].sessionId.v \in DOMAIN transports
             /\ transports[objs[t].sessionId.v] = t

\* both handlers are still in flight and both sessions are registered
C10_Witness ==
    /\ Len(objs) = 2
    /\ \A t \in 1..2 :
          /\ objs[t].mode = "generated"
          /\ Truthy(objs[t].sessionId)
          /\ objs[t].sessionId.v \in DOMAIN transports
          /\ transports[objs[t].sessionId.v] = t
    /\ objs[1].sessionId # objs[2].sessionId
    /\ \A r \in Slots :
          /\ slots[r].pc = "handling"
          /\ slots[r].method = "POST"
          /\ isInitializeRequest(slots[r].body)
    /\ slots[1].t # slots[2].t

(***************************************************************************)
(* C11 -- Exact lookup: the router finds a transport for a session id      *)
(* exactly when a transport was put under that id and the id was not       *)
(* deleted since, and then it is that transport; an id that was never put  *)
(* (a valid UUID, "1234", the name of a built-in object property) or that  *)
(* was deleted yields none and the request is treated as unregistered.     *)
(***************************************************************************)
C11_ExactLookup ==
    /\ (PostOrGet /\ Truthy(req.sessionId)) =>
          /\ (req.route = "RESUME") <=> (req.sessionId.v \in DOMAIN before.reg)
          /\ req.route = "RESUME" =>
                req.target = before.reg[req.sessionId.v]
          /\ ~req.threw
    /\ (req.method = "DELETE" /\ Truthy(req.sessionId)) =>
          /\ (req.route = "TEARDOWN") <=>
                (req.sessionId.v \in DOMAIN before.reg)
          /\ req.route = "TEARDOWN" =>
                req.target = before.reg[req.sessionId.v]
          /\ ~req.threw

(***************************************************************************)
(* C18 -- Two-phase registration: constructing a generated-mode transport  *)
(* leaves the registry as it was; as long as the transport has no session  *)
(* id no entry refers to it; its entry is added only by the                *)
(* session-initialized callback, under the id passed to the callback.      *)
(***************************************************************************)
C18_TwoPhase ==
    /\ (req.created # 0 /\ objs[req.created].mode = "generated") =>
          transports = before.reg
    /\ \A t \in 1..Len(objs) :
          (objs[t].mode = "generated" /\ ~Truthy(objs[t].sessionId)) =>
             \A id \in DOMAIN transports : transports[id] # t
    /\ \A id \in DOMAIN transports \ DOMAIN before.reg :
          objs[transports[id]].mode = "generated" =>
             /\ callback.name = "onsessioninitialized"
             /\ callback.t = transports[id]
             /\ callback.sessionId = Str(id)

\* a connected generated-mode transport that waits for its handshake while
\* another session is registered
C18_Witness ==
    /\ \E r \in Slots : OpensSession(r) /\ objs[slots[r].t].connected
    /\ transports # <<>>

(***************************************************************************)
(* C19 -- Single removal path: every step that removes an entry is the     *)
(* execution of a close callback; a POST/GET, a DELETE arrival and the     *)
(* creation of a transport remove nothing; the entry of a transport that   *)
(* never closes is never removed.                                          *)
(***************************************************************************)
C19_SingleRemovalPath ==
    /\ \A id \in DOMAIN before.reg \ DOMAIN transports :
          /\ callback.name = "onclose"
          /\ req = NoRequest
          /\ objs[before.reg[id]].closed
    /\ req.method # "NONE" => DOMAIN before.reg \subseteq DOMAIN transports

(***************************************************************************)
(* C20 -- Server factory: every transport the router created had the       *)
(* factory invoked exactly once; a RESUME, REJECT or DELETE request        *)
(* invokes it never; the request that caused a creation is forwarded to    *)
(* the new transport only when the factory has returned and the server is  *)
(* connected to the transport.                                             *)
(***************************************************************************)
C20_FactoryOnce ==
    /\ \A t \in 1..Len(objs) : objs[t].factoryCalls = 1
    /\ FactoryCalls = Len(objs)
    /\ (req.method # "NONE" /\ req.route # "FRESH") =>
          /\ req.created = 0
          /\ Len(objs) = before.n
          /\ FactoryCalls = before.n
    /\ req.route = "FRESH" =>
          /\ req.created = before.n + 1
          /\ FactoryCalls = before.n + 1
          /\ req.target = 0
    /\ req.route = "FORWARD" =>
          /\ req.target \in 1..before.n
          /\ objs[req.target].connected
          /\ \E r \in Slots :
                slots[r].pc = "handling" /\ slots[r].t = req.target
          /\ FactoryCalls = before.n
    /\ \A r \in Slots :
          slots[r].pc \in {"awaitServer", "awaitConnect"} =>
             ~objs[slots[r].t].connected

\* the request that created the second transport is forwarded to it
C20_Witness ==
    /\ req.route = "FORWARD"
    /\ req.target = 2
    /\ objs[2].connected
    /\ objs[2].factoryCalls = 1

(***************************************************************************)
(* validUUID and header, called on their own                               *)
(***************************************************************************)
\* the result of a call that has not returned yet
Pending == [done |-> FALSE]

Returned(v) == [done |-> TRUE, v |-> v]

\* a valid id with digits and letters of both cases
UuidMixed ==
    [i \in 1..UUIDLength |->
        IF i \in HyphenPositions THEN "-"
        ELSE IF i % 3 = 0 THEN "F"
        ELSE IF i % 3 = 1 THEN "a"
        ELSE "9"]

\* UuidMixed with one character replaced
Perturbed ==
    {[UuidMixed EXCEPT ![i] = c] :
        i \in 1..UUIDLength, c \in {"g", "-", " ", "0", "E"}}

\* wrong length, padding, wrong group lengths, no hyphens
Malformed ==
    {EmptyString, Id1234, IdConstructor,
     SubSeq(UuidMixed, 1, UUIDLength - 1),
     UuidMixed \o <<"0">>,
     <<" ">> \o UuidMixed,
     UuidMixed \o <<" ">>,
     UuidMixed \o <<"\n">>,
     UuidMixed \o <<"-">> \o UuidMixed,
     [[UuidMixed EXCEPT ![9] = "a"] EXCEPT ![10] = "-"],
     [i \in 1..32 |-> "a"]}

UuidInputs ==
    {Undefined} \cup
    {Str(s) : s \in Perturbed \cup Malformed \cup {UuidA, randomUUIDValue(1)}}

ValidatorInit ==
    /\ RouterInit
    /\ StoreInit
    /\ pure \in {[fn |-> "validUUID", id |-> x, out |-> Pending] :
                    x \in UuidInputs}

\* validUUID(id) is called and returns
ApplyValidUUID ==
    /\ pure.fn = "validUUID"
    /\ ~pure.out.done
    /\ pure' = [pure EXCEPT !.out = Returned(validUUID(pure.id))]
    /\ UNCHANGED <<routerVars, gameVars>>

ValidatorNext == ApplyValidUUID

ValidatorSpec == ValidatorInit /\ [][ValidatorNext]_vars

HeaderNames == {SessionHeader, "accept"}

\* what a header can hold: a string, a sequence of strings, undefined
HeaderFieldValues ==
    {Str(UuidA), Str(Id1234), Str(EmptyString),
     Arr(<<UuidA, Id1234>>), Arr(<<Id1234>>), Arr(<<>>), Undefined}

HeaderObjects ==
    {Undefined} \cup
    UNION {{Obj(f) : f \in [D -> HeaderFieldValues]} : D \in SUBSET HeaderNames}

HeaderInit ==
    /\ RouterInit
    /\ StoreInit
    /\ pure \in {[fn |-> "header", headers |-> h, given |-> h, name |-> n,
                  out |-> Pending] :
                    h \in HeaderObjects, n \in HeaderNames}

\* header(headers, name) is called and returns; it assigns to nothing
ApplyHeader ==
    /\ pure.fn = "header"
    /\ ~pure.out.done
    /\ pure' = [pure EXCEPT !.out = Returned(header(pure.headers, pure.name))]
    /\ UNCHANGED <<routerVars, gameVars>>

HeaderNext == ApplyHeader

HeaderSpec == HeaderInit /\ [][HeaderNext]_vars

\* the parts of s between its hyphens
RECURSIVE Groups(_)
Groups(s) ==
    IF \A i \in 1..Len(s) : s[i] # "-" THEN <<s>>
    ELSE LET i == CHOOSE k \in 1..Len(s) :
                     s[k] = "-" /\ \A j \in 1..(k - 1) : s[j] # "-"
         IN <<SubSeq(s, 1, i - 1)>> \o Groups(SubSeq(s, i + 1, Len(s)))

GroupLengths == <<8, 4, 4, 4, 12>>

\* a hexadecimal digit of either case
IsHexDigit(c) ==
    \/ c \in {"0", "1", "2", "3", "4", "5", "6", "7", "8", "9"}
    \/ c \in {"a", "b", "c", "d", "e", "f"}
    \/ c \in {"A", "B", "C", "D", "E", "F"}

\* a non-empty string of five groups of 8, 4, 4, 4 and 12 hexadecimal
\* digits, separated by single hyphens, with nothing before or after
CanonicalUUID(x) ==
    /\ x.kind = "string"
    /\ x.v # <<>>
    /\ LET g == Groups(x.v) IN
          /\ Len(g) = Len(GroupLengths)
          /\ \A k \in 1..Len(g) :
                /\ Len(g[k]) = GroupLengths[k]
                /\ \A j \in 1..Len(g[k]) : IsHexDigit(g[k][j])

Whitespace == {" ", "\t", "\n"}

(***************************************************************************)
(* C12 -- validUUID returns true exactly for a non-empty string of five    *)
(* groups of 8, 4, 4, 4 and 12 hexadecimal digits of either case separated *)
(* by single hyphens, with nothing before or after; it returns false for   *)
(* absent, empty, wrong-group-length, non-hex and padded input.            *)
(***************************************************************************)
C12_ValidUUID ==
    (pure.fn = "validUUID" /\ pure.out.done) =>
        /\ pure.out.v <=> CanonicalUUID(pure.id)
        /\ ~Truthy(pure.id) => ~pure.out.v
        /\ (Truthy(pure.id) /\ Len(pure.id.v) # UUIDLength) => ~pure.out.v
        /\ (Truthy(pure.id)
              /\ \E i \in 1..Len(pure.id.v) : pure.id.v[i] \in Whitespace) =>
                 ~pure.out.v

\* an id with lower-case and upper-case digits is accepted
C12_Witness ==
    /\ pure.fn = "validUUID" /\ pure.out.done
    /\ pure.out.v
    /\ \E i, j \in 1..UUIDLength : pure.id.v[i] = "a" /\ pure.id.v[j] = "F"

(***************************************************************************)
(* C13 -- header(headers, name) returns none when the headers mapping or   *)
(* the named header is absent, the first element when the value is a       *)
(* sequence, and a scalar value as it is; it modifies nothing.             *)
(***************************************************************************)
C13_Header ==
    (pure.fn = "header" /\ pure.out.done) =>
        /\ pure.headers = pure.given
        /\ IF pure.headers.kind = "undefined" THEN pure.out.v = Undefined
           ELSE IF pure.name \notin DOMAIN pure.headers.fields
           THEN pure.out.v = Undefined
           ELSE LET value == pure.headers.fields[pure.name] IN
                CASE value.kind = "undefined" -> pure.out.v = Undefined
                  [] value.kind = "string" -> pure.out.v = value
                  [] value.kind = "array" ->
                        IF value.v = <<>> THEN pure.out.v = Undefined
                        ELSE /\ pure.out.v.kind = "string"
                             /\ pure.out.v.v = Head(value.v)

\* a header that was sent twice
C13_Witness ==
    /\ pure.fn = "header" /\ pure.out.done
    /\ pure.headers.kind = "object"
    /\ pure.name \in DOMAIN pure.headers.fields
    /\ pure.headers.fields[pure.name] = Arr(<<UuidA, Id1234>>)
    /\ pure.out.v = Str(UuidA)

(***************************************************************************)
(* chess.js, as server.ts and store.ts use it.  A position is the sequence *)
(* of the moves that led to it; a Chess object also keeps the moves made   *)
(* on this object, which the FEN does not carry.                           *)
(***************************************************************************)
MoveE4 == <<"e", "4">>
MoveE5 == <<"e", "5">>
MoveNew == <<"n", "e", "w">>

\* what a client passes as the move argument
MoveInputs == {MoveE4, <<" ">> \o MoveE5 \o <<" ">>, MoveNew}

\* the moves the engine accepts from the side to move
WhiteMoves == {MoveE4}
BlackMoves == {MoveE5}

RECURSIVE trimStart(_)
trimStart(s) ==
    IF s # <<>> /\ Head(s) \in Whitespace THEN trimStart(Tail(s)) ELSE s

RECURSIVE trimEnd(_)
trimEnd(s) ==
    IF s # <<>> /\ s[Len(s)] \in Whitespace
    THEN trimEnd(SubSeq(s, 1, Len(s) - 1)) ELSE s

\* String.prototype.trim()
trim(s) == trimEnd(trimStart(s))

\* new Chess()
NewChess == [kind |-> "chess", board |-> <<>>, history |-> <<>>]

\* game.fen(): the position with the side to move and the move number
fen(game) ==
    [kind |-> "fen", placement |-> game.board,
     turn |-> IF Len(game.board) % 2 = 0 THEN "w" ELSE "b",
     fullmove |-> (Len(game.board) \div 2) + 1]

\* new Chess(fen): the position without the moves that led to it
ChessFromFen(f) == [kind |-> "chess", board |-> f.placement, history |-> <<>>]

Legal(game, san) ==
    /\ Len(game.board) < MaxPly
    /\ san \in (IF fen(game).turn = "w" THEN WhiteMoves ELSE BlackMoves)

\* a game.move that answers an illegal move by leaving the game as it is
moveSilent(game, san) ==
    IF Legal(game, san)
    THEN [threw |-> FALSE,
          game |-> [game EXCEPT !.board = Append(@, san),
                                 !.history = Append(@, san)]]
    ELSE [threw |-> FALSE, game |-> game]

\* game.move(san): throws on a move that is not legal in the position
move(game, san) ==
    IF Legal(game, san)
    THEN [threw |-> FALSE,
          game |-> [game EXCEPT !.board = Append(@, san),
                                 !.history = Append(@, san)]]
    ELSE [threw |-> TRUE, game |-> game]

(***************************************************************************)
(* store.ts                                                                *)
(***************************************************************************)
\* JSON.stringify of a string, JSON.parse of the file's text
JsonStringify(v) == [json |-> "string", text |-> v]

JsonParse(data) == data.text

UndefinedText == <<"u", "n", "d", "e", "f", "i", "n", "e", "d">>

\* one file for all sessions
FileNameShared(sessionId) ==
    <<".", "/", "g", "a", "m", "e", "s", "/", "g", "a", "m", "e">>
        \o <<".", "j", "s", "o", "n">>

\* `./games/${sessionId}.json`
FileName(sessionId) ==
    <<".", "/", "g", "a", "m", "e", "s", "/">>
        \o (IF sessionId.kind = "undefined" THEN UndefinedText ELSE sessionId.v)
        \o <<".", "j", "s", "o", "n">>

existsSync(store, file) == file \in DOMAIN store

\* a saveGame that writes nothing
saveGameNothing(store, sessionId, game) == store

\* saveGame: writeFile(`./games/${sessionId}.json`, JSON.stringify(game.fen()))
saveGame(store, sessionId, game) ==
    Put(store, FileName(sessionId), JsonStringify(fen(game)))

\* a loadGame that never finds a game
loadGameNull(store, sessionId, exists) == Null

\* loadGame: exists is what existsSync answered when loadGame was called
loadGame(store, sessionId, exists) ==
    IF ~exists \/ ~Truthy(sessionId) THEN Null
    ELSE ChessFromFen(JsonParse(store[FileName(sessionId)]))

(***************************************************************************)
(* server.ts: the chess_move tool                                          *)
(***************************************************************************)
\* a call is taken by the first handler that is not in use
FreeCall(c) ==
    /\ calls[c].pc = "idle"
    /\ \A d \in Calls : d < c => calls[d].pc # "idle"

\* another chess_move call of the session is in flight
Overlaps(sessionId) ==
    \E d \in Calls : calls[d].pc # "idle" /\ calls[d].sessionId = sessionId

NoMoves == [sequential |-> TRUE, moves |-> <<>>, threw |-> FALSE]

Overlapped == [sequential |-> FALSE, moves |-> <<>>, threw |-> FALSE]

\* a step of a tool call is no step of the router
RouterUntouched ==
    /\ req' = NoRequest
    /\ callback' = NoCallback
    /\ before' = Snapshot
    /\ UNCHANGED <<transports, objs, slots, genUsed, pure>>

\* a tools/call POST for chess_move reaches transport t, which is registered
\* under its session id and connected to a server: the handler runs up to
\* await loadGame(ctx.sessionId)
ChessMoveCalled(c, t, m) ==
    /\ FreeCall(c)
    /\ t \in 1..Len(objs)
    /\ objs[t].connected
    /\ Truthy(objs[t].sessionId)
    /\ Lookup(transports, objs[t].sessionId.v) = TObj(t)
    /\ LET sessionId == objs[t].sessionId
           exists == existsSync(games, FileName(sessionId))
       IN
       /\ calls' = [calls EXCEPT ![c] =
              [IdleCall EXCEPT !.pc = "loadGame", !.t = t,
                               !.sessionId = sessionId, !.move = m,
                               !.exists = exists]]
       /\ hist' = Put(hist, sessionId.v,
                      IF Overlaps(sessionId) THEN Overlapped
                      ELSE IF sessionId.v \in DOMAIN hist
                      THEN hist[sessionId.v] ELSE NoMoves)
    /\ UNCHANGED games
    /\ RouterUntouched

\* loadGame resolves; the handler applies the move and, unless game.move
\* throws, runs up to the writeFile of saveGame
LoadGameResolved(c) ==
    /\ calls[c].pc = "loadGame"
    /\ LET sessionId == calls[c].sessionId
           loaded == loadGame(games, sessionId, calls[c].exists)
           game == IF calls[c].move = MoveNew THEN NewChess
                   ELSE IF loaded.kind = "null" THEN NewChess
                   ELSE loaded
           moved == move(game, trim(calls[c].move))
       IN
       IF moved.threw
       THEN /\ calls' = [calls EXCEPT ![c] = IdleCall]
            /\ hist' = IF hist[sessionId.v].sequential
                       THEN [hist EXCEPT ![sessionId.v].threw = TRUE]
                       ELSE hist
       ELSE /\ calls' = [calls EXCEPT ![c].pc = "saveGame",
                                      ![c].game = moved.game]
            /\ UNCHANGED hist
    /\ UNCHANGED games
    /\ RouterUntouched

\* the writeFile of saveGame completes; the handler returns the board
SaveGameResolved(c) ==
    /\ calls[c].pc = "saveGame"
    /\ LET sessionId == calls[c].sessionId IN
       /\ games' = saveGame(games, sessionId, calls[c].game)
       /\ hist' = IF hist[sessionId.v].sequential
                  THEN [hist EXCEPT ![sessionId.v].moves =
                           Append(@, trim(calls[c].move))]
                  ELSE hist
    /\ calls' = [calls EXCEPT ![c] = IdleCall]
    /\ RouterUntouched

\* a POST that opens a session: without id and with an initialize body, or
\* with a valid id that is not registered (post's FRESH branch)
OpenSession ==
    /\ Len(objs) < MaxTransports
    /\ Post(1)
    /\ req'.method = "POST"
    /\ req'.route = "FRESH"

GameNext ==
    \/ OpenSession
    \/ ServerResolved(1)
    \/ ConnectResolved(1)
    \/ SessionInitialized(1)
    \/ HandleDone(1)
    \/ \E t \in 1..MaxTransports : Disconnect(t)
    \/ \E c \in Calls, t \in 1..MaxTransports, m \in MoveInputs :
          ChessMoveCalled(c, t, m)
    \/ \E c \in Calls : LoadGameResolved(c)
    \/ \E c \in Calls : SaveGameResolved(c)

GameSpec == Init /\ [][GameNext]_vars

(***************************************************************************)
(* Vocabulary of the game properties                                       *)
(***************************************************************************)
\* the position stored for a session id, or Null
Stored(store, id) ==
    IF existsSync(store, FileName(Str(id)))
    THEN JsonParse(store[FileName(Str(id))])
    ELSE Null

\* the session ids of the transports created so far
SessionIds ==
    {objs[t].sessionId.v : t \in {u \in 1..Len(objs) : Truthy(objs[u].sessionId)}}

\* the game after the moves of ms were applied in order, starting at game
RECURSIVE ApplyAll(_, _)
ApplyAll(game, ms) ==
    IF ms = <<>> THEN game ELSE ApplyAll(move(game, Head(ms)).game, Tail(ms))

\* handler c takes the step from unprimed to primed
Steps(c) == calls'[c] # calls[c]

\* the session of the call whose handler c takes a step
SessionOf(c) ==
    IF calls[c].pc = "idle" THEN calls'[c].sessionId ELSE calls[c].sessionId

\* transport t serves a session that an earlier transport served until it
\* closed: the client has reconnected with the same session id
Reconnected(t) ==
    /\ t \in 1..Len(objs)
    /\ objs[t].mode = "explicit"
    /\ \E u \in 1..(t - 1) :
          objs[u].closed /\ objs[u].sessionId = objs[t].sessionId

(***************************************************************************)
(* C14 -- chess_move with the move "new" starts a new game: the call       *)
(* succeeds, and when it has returned the position stored for the calling  *)
(* session is the initial position, whatever was stored before.            *)
(***************************************************************************)
C14_NewGame ==
    [][\A c \in Calls :
          (Steps(c) /\ calls[c].move = MoveNew) =>
             /\ calls[c].pc = "loadGame" =>
                   /\ calls'[c].pc = "saveGame"
                   /\ fen(calls'[c].game) = fen(NewChess)
             /\ calls[c].pc = "saveGame" =>
                   Stored(games', calls[c].sessionId.v) = fen(NewChess)]_vars

(***************************************************************************)
(* C15 -- Persistence across moves: when the chess_move calls of a session *)
(* came one after another and the successful ones have all returned, the   *)
(* position stored for the session is the result of applying their moves   *)
(* in order to the initial position.                                       *)
(***************************************************************************)
C15_Persistence ==
    \A id \in DOMAIN hist :
        (hist[id].sequential /\ hist[id].moves # <<>>
            /\ ~Overlaps(Str(id))) =>
           Stored(games, id) = fen(ApplyAll(NewChess, hist[id].moves))

\* two moves were made by two calls, one after the other
C15_Witness ==
    \E id \in DOMAIN hist :
        /\ hist[id].sequential
        /\ hist[id].moves = <<MoveE4, MoveE5>>
        /\ ~Overlaps(Str(id))
        /\ Stored(games, id).kind = "fen"

(***************************************************************************)
(* C16 -- Games resume on reconnect: a step in which a transport closes    *)
(* and its registry entry is removed leaves every stored position as it    *)
(* was; a chess_move that reaches the transport of a reconnected session   *)
(* (explicit resumption with the same id) starts from the position that    *)
(* was saved last: its outcome is that of applying the move to it.         *)
(***************************************************************************)
C16_Resume ==
    [][/\ callback'.name = "onclose" => games' = games
       /\ \A c \in Calls :
             (Steps(c) /\ calls[c].pc = "loadGame" /\ calls[c].exists
                 /\ Reconnected(calls[c].t)) =>
                LET saved == Stored(games, calls[c].sessionId.v)
                    outcome == move(ChessFromFen(saved), trim(calls[c].move))
                IN IF outcome.threw THEN calls'[c].pc = "idle"
                   ELSE /\ calls'[c].pc = "saveGame"
                        /\ calls'[c].game = outcome.game]_vars

\* the first session's transport closed, the client came back with the same
\* id, and its next move continued the saved game
C16_Witness ==
    /\ Reconnected(2)
    /\ \E c \in Calls :
          /\ calls[c].pc = "saveGame"
          /\ calls[c].t = 2
          /\ calls[c].exists
          /\ calls[c].game.board = <<MoveE4, MoveE5>>

(***************************************************************************)
(* C17 -- Session isolation: a step of a chess_move call in session a,     *)
(* successful or failing, leaves the stored position of every other        *)
(* session b # a as it was.                                                *)
(***************************************************************************)
C17_Isolation ==
    [][\A c \in Calls :
          Steps(c) =>
             \A b \in SessionIds :
                Str(b) # SessionOf(c) =>
                   Stored(games', b) = Stored(games, b)]_vars

\* a call of one session has saved its move while another session has a
\* stored game
C17_Witness ==
    \E a, b \in SessionIds :
        /\ a # b
        /\ Stored(games, a).kind = "fen"
        /\ Stored(games, b).kind = "fen"
        /\ Stored(games, a) # Stored(games, b)

(***************************************************************************)
(* C22 -- Valid keys: in every reachable state every key of the registry   *)
(* satisfies the validator: it is a client-supplied id that passed         *)
(* validUUID or an id the transport's generator produced; no empty or      *)
(* malformed id is ever registered.                                        *)
(***************************************************************************)
C22_ValidKeys ==
    \A id \in DOMAIN transports :
        /\ validUUID(Str(id))
        /\ id # EmptyString
        /\ id \in genUsed \/ (id \in ClientIds /\ MatchesUUIDPattern(id))

\* a client-supplied id and a generated id are registered at the same time
C22_Witness ==
    /\ UuidA \in DOMAIN transports
    /\ \E g \in genUsed : g \in DOMAIN transports

(***************************************************************************)
(* C23 -- No stale entries: in every reachable state every registry entry  *)
(* refers to a transport whose close callback has not run; a transport     *)
(* that closed before its session id was set (generated mode, close before *)
(* the handshake callback) is never in the registry afterwards.            *)
(***************************************************************************)
C23_NoStaleEntries ==
    \A id \in DOMAIN transports : ~objs[transports[id]].closed

(***************************************************************************)
(* C24 -- Forwarding needs a bound server: a request is forwarded          *)
(* (handleRequest) only to a transport whose server binding has completed; *)
(* a request with an explicit session id that arrives while the first      *)
(* request for that id is still awaiting the factory or the connect step   *)
(* is not forwarded to the transport that is not connected yet.            *)
(***************************************************************************)
C24_ForwardToBound ==
    /\ \A r \in Slots :
          slots[r].pc = "handling" => objs[slots[r].t].connected
    /\ (req.target # 0 /\ req.method # "NONE") => objs[req.target].connected

(***************************************************************************)
(* C25 -- Failed creation: when the server factory or the connect step     *)
(* raises, the registry is as it was before the request; no entry remains  *)
(* that maps an id to a transport with no connected server and no creation *)
(* in progress.                                                            *)
(***************************************************************************)
C25_FailedCreation ==
    \A id \in DOMAIN transports :
        ~objs[transports[id]].connected =>
           \E r \in Slots : Creating(r, transports[id])

(***************************************************************************)
(* C26 -- Own entry only: the close callback of a transport removes at     *)
(* most the registry entry that maps to this transport; it never removes   *)
(* an entry under the same session id that maps to another transport.      *)
(***************************************************************************)
C26_OwnEntryOnly ==
    callback.name = "onclose" =>
        /\ \A id \in DOMAIN before.reg \ DOMAIN transports :
              before.reg[id] = callback.t
        /\ \A id \in DOMAIN before.reg :
              before.reg[id] # callback.t =>
                 (id \in DOMAIN transports /\ transports[id] = before.reg[id])

\* the position a chess_move handler applies its move to when loadGame
\* resolves now
Position(c) ==
    IF calls[c].move # MoveNew /\ calls[c].exists /\ Truthy(calls[c].sessionId)
    THEN ChessFromFen(Stored(games, calls[c].sessionId.v))
    ELSE NewChess

(***************************************************************************)
(* C21 -- Illegal move: a chess_move call whose move the rule engine       *)
(* rejects ends with an error and leaves the stored position of its        *)
(* session as it was; a position is written only by a call whose move was  *)
(* applied successfully, and it is the position after that move.           *)
(***************************************************************************)
C21_IllegalMove ==
    [][/\ \A c \in Calls :
             (Steps(c) /\ calls[c].pc = "loadGame"
                 /\ ~Legal(Position(c), trim(calls[c].move))) =>
                /\ calls'[c] = IdleCall
                /\ games' = games
       /\ games' # games =>
             \E c \in Calls :
                /\ calls[c].pc = "saveGame"
                /\ calls'[c] = IdleCall
                /\ calls[c].game.history = <<trim(calls[c].move)>>
                /\ games' = Put(games, FileName(calls[c].sessionId),
                                JsonStringify(fen(calls[c].game)))]_vars

\* a call of the session has thrown, and the position saved before is
\* still the stored one
C21_Witness ==
    \E id \in DOMAIN hist :
        /\ hist[id].sequential
        /\ hist[id].threw
        /\ hist[id].moves = <<MoveE4>>
        /\ ~Overlaps(Str(id))
        /\ Stored(games, id) = fen(ApplyAll(NewChess, <<MoveE4>>))

(***************************************************************************)
(* C27 -- No lost update: when two chess_move calls of one session are in  *)
(* flight together and both succeed, the stored position reflects both     *)
(* moves.  Every save therefore puts its move on top of the position that  *)
(* is stored at that moment, not on top of an older one.                   *)
(***************************************************************************)
C27_NoLostUpdate ==
    [][\A c \in Calls :
          (Steps(c) /\ calls[c].pc = "saveGame") =>
             LET cur == Stored(games, calls[c].sessionId.v)
                 base == IF cur.kind = "fen" THEN cur ELSE fen(NewChess)
             IN fen(calls[c].game).placement =
                   Append(base.placement, trim(calls[c].move))]_vars

=============================================================================
